---- MODULE Spec2Model ----
(***************************************************************************)
(* Model of fuzzy_load.py: fuzzy matching of transaction names against     *)
(* customer names (thefuzz token_set_ratio), the pandas left join, the     *)
(* first/last name disambiguation and the hand-over to Snowflake.          *)
(*                                                                         *)
(* Strings are sequences of one-character strings, so that split, strip,   *)
(* lower-casing and the edit distance are computed, not assumed.           *)
(***************************************************************************)
EXTENDS Integers, Sequences, FiniteSets, TLC

\* ------------------------------------------------------------------------
\* Bounds of the model
\* ------------------------------------------------------------------------
MaxTx == 2
MaxCust == 2
MaxChoices == 2

\* ------------------------------------------------------------------------
\* Characters and strings
\* ------------------------------------------------------------------------
UpperChars == <<"A","B","C","D","E","F","G","H","I","J","K","L","M",
                "N","O","P","Q","R","S","T","U","V","W","X","Y","Z">>
LowerChars == <<"a","b","c","d","e","f","g","h","i","j","k","l","m",
                "n","o","p","q","r","s","t","u","v","w","x","y","z">>
DigitChars == <<"0","1","2","3","4","5","6","7","8","9">>
\* code point order of the characters that survive default_process
CharOrder == <<" ">> \o DigitChars \o LowerChars

Range(s) == {s[i] : i \in 1..Len(s)}
Max2(a, b) == IF a >= b THEN a ELSE b
Min2(a, b) == IF a <= b THEN a ELSE b

\* the place of each character in that order
OrdOf == [c \in Range(CharOrder) |->
            CHOOSE i \in 1..Len(CharOrder) : CharOrder[i] = c]
Ord(c) == OrdOf[c]

\* str.lower() and str.upper(), letter by letter
LowerOf == [c \in Range(UpperChars) |->
              LowerChars[CHOOSE i \in 1..Len(UpperChars) : UpperChars[i] = c]]
UpperOf == [c \in Range(LowerChars) |->
              UpperChars[CHOOSE i \in 1..Len(LowerChars) : LowerChars[i] = c]]

\* str.lower() on one character
LowerChar(c) == IF c \in DOMAIN LowerOf THEN LowerOf[c] ELSE c

\* str.upper() on one character
UpperChar(c) == IF c \in DOMAIN UpperOf THEN UpperOf[c] ELSE c

AlnumChars == Range(UpperChars) \cup Range(LowerChars) \cup Range(DigitChars)
IsAlnum(c) == c \in AlnumChars

RECURSIVE Strip(_)
\* str.strip(): leading and trailing blanks removed
Strip(s) ==
  IF s = <<>> THEN s
  ELSE IF s[1] = " " THEN Strip(Tail(s))
  ELSE IF s[Len(s)] = " " THEN Strip(SubSeq(s, 1, Len(s) - 1))
  ELSE s

\* the processor thefuzz applies to the query and to every choice:
\* lower-case, every non-alphanumeric character to a blank, then strip
full_process(s) ==
  Strip([i \in 1..Len(s) |-> IF IsAlnum(s[i]) THEN LowerChar(s[i]) ELSE " "])

RECURSIVE SplitOn(_, _)
\* str.split(sep) with an explicit one-character separator: empty pieces kept,
\* "".split(" ") = [""], " ".split(" ") = ["", ""]
SplitOn(s, sep) ==
  IF \A i \in 1..Len(s) : s[i] # sep THEN <<s>>
  ELSE LET i == CHOOSE k \in 1..Len(s) :
                    s[k] = sep /\ \A j \in 1..(k - 1) : s[j] # sep
       IN <<SubSeq(s, 1, i - 1)>> \o SplitOn(SubSeq(s, i + 1, Len(s)), sep)

NonEmpty(t) == t # <<>>

\* str.split() on whitespace: the non-empty words
Words(s) == SelectSeq(SplitOn(s, " "), NonEmpty)

\* lexicographic order of two processed strings
LexLess(a, b) ==
  \E k \in 1..(Min2(Len(a), Len(b)) + 1) :
     /\ \A j \in 1..(k - 1) : a[j] = b[j]
     /\ \/ k > Len(a) /\ k <= Len(b)
        \/ k <= Len(a) /\ k <= Len(b) /\ Ord(a[k]) < Ord(b[k])

RECURSIVE SortedSeq(_)
\* sorted(set of strings)
SortedSeq(S) ==
  IF S = {} THEN <<>>
  ELSE LET m == CHOOSE t \in S : \A u \in S : u = t \/ LexLess(t, u)
       IN <<m>> \o SortedSeq(S \ {m})

RECURSIVE JoinWith(_, _)
\* sep.join(parts)
JoinWith(parts, sep) ==
  IF parts = <<>> THEN <<>>
  ELSE IF Len(parts) = 1 THEN parts[1]
  ELSE parts[1] \o sep \o JoinWith(Tail(parts), sep)

\* ------------------------------------------------------------------------
\* fuzz.token_set_ratio
\* ------------------------------------------------------------------------
RECURSIVE LcsRow(_, _, _, _)
\* one row of the table of the longest common subsequence: cur[j + 1] is the
\* length for the prefix of a ending in c and the first j characters of b
LcsRow(prev, c, b, cur) ==
  IF Len(cur) = Len(b) + 1 THEN cur
  ELSE LET j == Len(cur)
       IN LcsRow(prev, c, b,
                 Append(cur, IF c = b[j] THEN prev[j] + 1
                             ELSE Max2(prev[j + 1], cur[j])))

RECURSIVE LcsRows(_, _, _, _)
LcsRows(a, b, i, prev) ==
  IF i > Len(a) THEN prev
  ELSE LcsRows(a, b, i + 1, LcsRow(prev, a[i], b, <<0>>))

\* length of the longest common subsequence
LcsLen(a, b) == LcsRows(a, b, 1, [j \in 1..(Len(b) + 1) |-> 0])[Len(b) + 1]

\* insertions and deletions needed to turn a into b
IndelDistance(a, b) == Len(a) + Len(b) - 2 * LcsLen(a, b)

\* int(round(x)) of x = num / den, halves to the even neighbour
RoundHalfEven(num, den) ==
  LET q == num \div den
      r == num % den
  IN IF 2 * r < den THEN q
     ELSE IF 2 * r > den THEN q + 1
     ELSE IF q % 2 = 0 THEN q ELSE q + 1

\* 100 * (1 - dist / lensum), rounded; 100 for two empty strings
NormSim(dist, lensum) ==
  IF lensum = 0 THEN 100 ELSE RoundHalfEven(100 * (lensum - dist), lensum)

\* the three ratios of token_set_ratio, from the length of the joined common
\* words and the joined words only a, only b has
TokenSetRatioOfLens(sect_len, ab, ba) ==
  IF sect_len = 0
  THEN NormSim(IndelDistance(ab, ba), Len(ab) + Len(ba))
  ELSE Max2(NormSim(IndelDistance(ab, ba), 2 * (sect_len + 1) + Len(ab) + Len(ba)),
            Max2(NormSim(1 + Len(ab), 2 * sect_len + 1 + Len(ab)),
                 NormSim(1 + Len(ba), 2 * sect_len + 1 + Len(ba))))

\* 100 when one set of words contains the other
TokenSetRatioOfParts(intersect, diff_ab, diff_ba) ==
  IF intersect # {} /\ (diff_ab = <<>> \/ diff_ba = <<>>) THEN 100
  ELSE TokenSetRatioOfLens(Len(JoinWith(SortedSeq(intersect), <<" ">>)),
                           JoinWith(diff_ab, <<" ">>),
                           JoinWith(diff_ba, <<" ">>))

\* 0 when either string has no word
TokenSetRatioOfTokens(tokens_a, tokens_b) ==
  IF tokens_a = {} \/ tokens_b = {} THEN 0
  ELSE TokenSetRatioOfParts(tokens_a \cap tokens_b,
                            SortedSeq(tokens_a \ tokens_b),
                            SortedSeq(tokens_b \ tokens_a))

\* fuzz.token_set_ratio(s1, s2): both strings processed, split into words,
\* and compared as sets of words
token_set_ratio(s1, s2) ==
  TokenSetRatioOfTokens(Range(Words(full_process(s1))),
                        Range(Words(full_process(s2))))

\* ------------------------------------------------------------------------
\* The candidate resolver: process.extractOne, get_best_score, extract_best
\* ------------------------------------------------------------------------
\* Python's None and pandas' missing value; no string has a multi-character
\* element, so neither equals any string
None == <<"None">>
NaN == <<"NaN">>
Blank == <<" ">>

threshold_default == 75

NoResult == [found |-> FALSE, choice |-> None, score |-> 0]

\* the first index of maximal score among those in ok
BestIndex(scores, ok) ==
  CHOOSE i \in ok : \A j \in ok : scores[j] < scores[i]
                                  \/ (scores[j] = scores[i] /\ i <= j)

ExtractFrom(choices, scores, ok) ==
  IF ok = {} THEN NoResult
  ELSE [found |-> TRUE,
        choice |-> choices[BestIndex(scores, ok)],
        score |-> scores[BestIndex(scores, ok)]]

ExtractScored(choices, scores, score_cutoff) ==
  ExtractFrom(choices, scores,
              {i \in 1..Len(choices) : scores[i] >= score_cutoff})

\* process.extractOne(query, choices, scorer=fuzz.token_set_ratio,
\* score_cutoff=...): the first choice of maximal score, when that score
\* reaches the cutoff; None otherwise, and None on an empty list of choices
extractOne(query, choices, score_cutoff) ==
  ExtractScored(choices,
                [i \in 1..Len(choices) |-> token_set_ratio(query, choices[i])],
                score_cutoff)

\* "best, score = result": TypeError when result is None
UnpackScore(result) ==
  IF result.found
  THEN [raised |-> "", value |-> result.score]
  ELSE [raised |-> "TypeError", value |-> 0]

\* get_best_score: the best score; extractOne returns None for an empty
\* list and the unpacking raises
get_best_score(name, choices) == UnpackScore(extractOne(name, choices, 0))

\* "if result is not None: return result[0]; return None"
ChoiceOrNone(result) == IF result.found THEN result.choice ELSE None

\* a slip: the threshold taken as exclusive
extract_best_exclusive(name, choices, threshold) ==
  ChoiceOrNone(extractOne(name, choices, threshold + 1))

\* extract_best: the best choice, or None
extract_best(name, choices, threshold) ==
  ChoiceOrNone(extractOne(name, choices, threshold))

\* ------------------------------------------------------------------------
\* DataFrames: the column labels and the rows, each row aligned with them
\* ------------------------------------------------------------------------
transaction_id == <<"t","r","a","n","s","a","c","t","i","o","n","_","i","d">>
amount == <<"a","m","o","u","n","t">>
transaction_date == <<"t","r","a","n","s","a","c","t","i","o","n","_","d","a","t","e">>
customer_id == <<"c","u","s","t","o","m","e","r","_","i","d">>
email == <<"e","m","a","i","l">>
customer_name == <<"c","u","s","t","o","m","e","r","_","n","a","m","e">>
external_name == <<"e","x","t","e","r","n","a","l","_","n","a","m","e">>
suffix_1 == <<"_","1">>
suffix_2 == <<"_","2">>
customer_id_1 == customer_id \o suffix_1
customer_id_2 == customer_id \o suffix_2
email_1 == email \o suffix_1
email_2 == email \o suffix_2
customer_name_1 == customer_name \o suffix_1
customer_name_2 == customer_name \o suffix_2

ColIndex(df, name) == CHOOSE i \in 1..Len(df.columns) : df.columns[i] = name
\* df[name][r]
Cell(df, r, name) == df.rows[r][ColIndex(df, name)]
\* df[name].tolist()
ColumnList(df, name) == [r \in 1..Len(df.rows) |-> Cell(df, r, name)]

\* df[name] = values, for a label the frame does not have yet
AddColumn(df, name, values) ==
  [columns |-> Append(df.columns, name),
   rows |-> [r \in 1..Len(df.rows) |-> Append(df.rows[r], values[r])]]

RECURSIVE KeepAt(_, _, _)
\* the elements of s, from position i on, at the positions in keep
KeepAt(s, keep, i) ==
  IF i > Len(s) THEN <<>>
  ELSE IF i \in keep THEN <<s[i]>> \o KeepAt(s, keep, i + 1)
  ELSE KeepAt(s, keep, i + 1)

DropAt(df, keep) ==
  [columns |-> KeepAt(df.columns, keep, 1),
   rows |-> [r \in 1..Len(df.rows) |-> KeepAt(df.rows[r], keep, 1)]]

\* df.drop(columns=names)
DropColumns(df, names) ==
  DropAt(df, {i \in 1..Len(df.columns) : df.columns[i] \notin names})

\* a slip: only None is taken as missing, the join's NaN is left
FillNaNoneOnly(df, value) ==
  [columns |-> df.columns,
   rows |-> [r \in 1..Len(df.rows) |->
               [i \in 1..Len(df.columns) |->
                  IF df.rows[r][i] = None THEN value ELSE df.rows[r][i]]]]

\* df.fillna(value)
FillNa(df, value) ==
  [columns |-> df.columns,
   rows |-> [r \in 1..Len(df.rows) |->
               [i \in 1..Len(df.columns) |->
                  IF df.rows[r][i] \in {NaN, None} THEN value ELSE df.rows[r][i]]]]

RECURSIVE Flatten(_)
Flatten(ss) == IF ss = <<>> THEN <<>> ELSE ss[1] \o Flatten(Tail(ss))

\* a slip: an inner join, which yields no row when nothing matches
InnerRows(lrow, right, matches) ==
  [k \in 1..Len(matches) |-> lrow \o right.rows[matches[k]]]

\* the rows a left row yields in a left join: one per matching right row, in
\* the right frame's order, or one with missing right-hand values
LeftRows(lrow, right, matches) ==
  IF matches = <<>>
  THEN <<lrow \o [i \in 1..Len(right.columns) |-> NaN]>>
  ELSE [k \in 1..Len(matches) |-> lrow \o right.rows[matches[k]]]

\* the positions of the right rows whose key equals key, in order
MatchingRows(right, right_on, key) ==
  KeepAt([i \in 1..Len(right.rows) |-> i],
         {i \in 1..Len(right.rows) : Cell(right, i, right_on) = key}, 1)

\* a label that occurs on both sides gets the side's suffix
MergedLabels(columns, both, suffix) ==
  [i \in 1..Len(columns) |->
     IF columns[i] \in both THEN columns[i] \o suffix ELSE columns[i]]

\* pd.merge(left, right, left_on=..., right_on=..., how='left',
\* suffixes=(sl, sr)); the rows keep the order of the left frame
Merge(left, right, left_on, right_on, sl, sr) ==
  [columns |->
     MergedLabels(left.columns, Range(left.columns) \cap Range(right.columns), sl)
     \o MergedLabels(right.columns, Range(left.columns) \cap Range(right.columns), sr),
   rows |->
     Flatten([r \in 1..Len(left.rows) |->
                LeftRows(left.rows[r], right,
                         MatchingRows(right, right_on, Cell(left, r, left_on)))])]

\* ------------------------------------------------------------------------
\* Inputs: the names the CSV files and the census lists may hold
\* ------------------------------------------------------------------------
JonDoe == <<"J","o","n"," ","D","o","e">>
JohnDoh == <<"J","o","h","n"," ","D","o","h">>
Zed == <<"Z","e","d">>
LeadDoe == <<" ","D","o","e">>
EdKCox == <<"E","d"," ","K"," ","C","o","x">>
MARY == <<"M","A","R","Y">>
JOHN == <<"J","O","H","N">>
DOE == <<"D","O","E">>
ROE == <<"R","O","E">>

TxNames == {JonDoe, Zed, LeadDoe, EdKCox}
CustNames == {JohnDoh, JonDoe}

SeqsUpTo(S, lo, hi) == UNION {[1..n -> S] : n \in lo..hi}

key_female == "first:female"
key_male == "first:male"
key_last == "last"

\* the 'name' column of each census file read by load_data; a file may be empty
RefOptions ==
  {[k \in {key_female, key_male, key_last} |->
      IF k = key_female THEN f ELSE IF k = key_male THEN m ELSE l] :
     <<f, m, l>> \in {<<(<<MARY>>), (<<JOHN>>), (<<DOE, ROE>>)>>,
                      <<(<<>>), (<<>>), (<<DOE, ROE>>)>>,
                      <<(<<MARY>>), (<<JOHN>>), (<<>>)>>}}

transactions_columns ==
  <<transaction_id, amount, transaction_date, customer_id, email, customer_name>>
customers_columns == <<customer_id, email, customer_name>>

\* transactions.csv with the given customer names, one row each
TransactionsFrame(names) ==
  [columns |-> transactions_columns,
   rows |-> [i \in 1..Len(names) |->
               <<(<<DigitChars[i + 1]>>), (<<"5","0">>),
                 (<<"2","0","2","4","-","0","1","-","0","1">>),
                 (<<"7">>), (<<"t","@","x">>), names[i]>>]]

\* customers.csv with the given customer names, one row each
CustomersFrame(names) ==
  [columns |-> customers_columns,
   rows |-> [i \in 1..Len(names) |->
               <<(<<"1", DigitChars[i + 1]>>), (<<"c","@","x">>), names[i]>>]]

EmptyFrame == [columns |-> <<>>, rows |-> <<>>]

\* ------------------------------------------------------------------------
\* State
\* ------------------------------------------------------------------------
VARIABLES
  pc,               \* the statement of main that runs next
  transactions,     \* the transactions frame
  customers,        \* the customers frame
  reference_names,  \* key -> the census names
  merged_df,        \* the joined frame
  conn,             \* "unset", "None", "connection" or "closed"
  calls,            \* the collaborator calls made so far, with their conn
  table,            \* the columns of the table created in Snowflake
  error,            \* the exception main ended with, "" when none
  probe             \* one direct call of a resolver entry point

vars == <<pc, transactions, customers, reference_names, merged_df, conn,
          calls, table, error, probe>>

data == <<transactions, customers, reference_names>>

IdleProbe == [op |-> "idle", name |-> <<>>, choices |-> <<>>, threshold |-> 0,
              raised |-> "", result |-> None, score |-> 0]

\* main after load_data (line 182): the frames hold the files' contents
Init ==
  /\ pc = "match"
  /\ \E names \in SeqsUpTo(TxNames, 1, MaxTx) :
        transactions = TransactionsFrame(names)
  /\ \E names \in SeqsUpTo(CustNames, 0, MaxCust) :
        customers = CustomersFrame(names)
  /\ reference_names \in RefOptions
  /\ merged_df = EmptyFrame
  /\ conn = "unset"
  /\ calls = <<>>
  /\ table = <<>>
  /\ error = ""
  /\ probe = IdleProbe

\* ------------------------------------------------------------------------
\* main, statement by statement
\* ------------------------------------------------------------------------
\* lines 185-186: transactions['external_name'] = ...apply(extract_best)
MatchNames ==
  /\ pc = "match"
  /\ transactions' =
       AddColumn(transactions, external_name,
                 [r \in 1..Len(transactions.rows) |->
                    extract_best(Cell(transactions, r, customer_name),
                                 ColumnList(customers, customer_name),
                                 threshold_default)])
  /\ pc' = "merge"
  /\ UNCHANGED <<customers, reference_names, merged_df, conn, calls, table,
                 error, probe>>

\* lines 189-196
MergeFrames ==
  /\ pc = "merge"
  /\ merged_df' = Merge(transactions, customers, external_name, customer_name,
                        suffix_1, suffix_2)
  /\ pc' = "fillna"
  /\ UNCHANGED <<data, conn, calls, table, error, probe>>

\* line 199
FillMissing ==
  /\ pc = "fillna"
  /\ merged_df' = FillNa(merged_df, Blank)
  /\ pc' = "drop_external"
  /\ UNCHANGED <<data, conn, calls, table, error, probe>>

\* line 202
DropExternalName ==
  /\ pc = "drop_external"
  /\ merged_df' = DropColumns(merged_df, {external_name})
  /\ pc' = "score_1"
  /\ UNCHANGED <<data, conn, calls, table, error, probe>>

score_1 == <<"s","c","o","r","e","_","1">>
score_2 == <<"s","c","o","r","e","_","2">>
score_last_1 == <<"s","c","o","r","e","_","l","a","s","t","_","1">>
score_last_2 == <<"s","c","o","r","e","_","l","a","s","t","_","2">>

\* reference_names['first:female']['name'].to_list()
\*   + reference_names['first:male']['name'].to_list()
FirstChoices(refs) == refs[key_female] \o refs[key_male]
\* reference_names['last']['name'].to_list()
LastChoices(refs) == refs[key_last]

\* get_best_score(name.split(' ')[k], choices), k counted from 0: IndexError
\* when the name has no such piece
ScoreOfPiece(pieces, k, choices) ==
  IF Len(pieces) < k + 1 THEN [raised |-> "IndexError", value |-> 0]
  ELSE get_best_score(pieces[k + 1], choices)

\* the outcome of Series.apply: the first exception raised, rows in order,
\* or every row's value
Applied(results) ==
  IF \E r \in 1..Len(results) : results[r].raised # ""
  THEN [raised |-> results[CHOOSE r \in 1..Len(results) :
                             /\ results[r].raised # ""
                             /\ \A q \in 1..(r - 1) : results[q].raised = ""].raised,
        values |-> <<>>]
  ELSE [raised |-> "", values |-> [r \in 1..Len(results) |-> results[r].value]]

\* df[col].apply(lambda name: get_best_score(name.split(' ')[k], choices))
ScoreColumn(df, col, k, choices) ==
  Applied([r \in 1..Len(df.rows) |->
             ScoreOfPiece(SplitOn(Cell(df, r, col), " "), k, choices)])

\* merged_df[new_col] = applied, unless the apply raised
AssignApplied(applied, new_col, next) ==
  IF applied.raised # ""
  THEN /\ error' = applied.raised
       /\ pc' = "raised"
       /\ UNCHANGED merged_df
  ELSE /\ merged_df' = AddColumn(merged_df, new_col, applied.values)
       /\ pc' = next
       /\ UNCHANGED error

\* one of the statements at lines 205-208
ScoreStep(here, col, k, choices, new_col, next) ==
  /\ pc = here
  /\ AssignApplied(ScoreColumn(merged_df, col, k, choices), new_col, next)
  /\ UNCHANGED <<data, conn, calls, table, probe>>

\* line 205
ScoreFirst1 ==
  ScoreStep("score_1", customer_name_1, 0, FirstChoices(reference_names),
            score_1, "score_2")
\* line 206
ScoreFirst2 ==
  ScoreStep("score_2", customer_name_2, 0, FirstChoices(reference_names),
            score_2, "score_last_1")
\* line 207
ScoreLast1 ==
  ScoreStep("score_last_1", customer_name_1, 1, LastChoices(reference_names),
            score_last_1, "score_last_2")
\* line 208
ScoreLast2 ==
  ScoreStep("score_last_2", customer_name_2, 1, LastChoices(reference_names),
            score_last_2, "select")

\* pieces[k], k counted from 0; IndexError when there is no such piece
PieceAt(pieces, k) ==
  IF Len(pieces) < k + 1
  THEN [raised |-> "IndexError", value |-> <<>>]
  ELSE [raised |-> "", value |-> pieces[k + 1]]

\* row[col].split(' ')[k]
Piece(df, r, col, k) == PieceAt(SplitOn(Cell(df, r, col), " "), k)

\* f"{best_first} {best_last}", unless taking either token raised
FullName(best_first, best_last) ==
  IF best_first.raised # "" THEN [raised |-> best_first.raised, value |-> <<>>]
  ELSE IF best_last.raised # "" THEN [raised |-> best_last.raised, value |-> <<>>]
  ELSE [raised |-> "", value |-> best_first.value \o <<" ">> \o best_last.value]

\* a slip: the last token chosen by the first-name scores
select_best_full_name_first_scores(df, r) ==
  FullName(IF Cell(df, r, score_2) > Cell(df, r, score_1)
           THEN Piece(df, r, customer_name_2, 0)
           ELSE Piece(df, r, customer_name_1, 0),
           IF Cell(df, r, score_2) > Cell(df, r, score_1)
           THEN Piece(df, r, customer_name_2, 1)
           ELSE Piece(df, r, customer_name_1, 1))

\* a slip: a tie goes to name_2
select_best_full_name_tie_2(df, r) ==
  FullName(IF Cell(df, r, score_2) >= Cell(df, r, score_1)
           THEN Piece(df, r, customer_name_2, 0)
           ELSE Piece(df, r, customer_name_1, 0),
           IF Cell(df, r, score_last_2) >= Cell(df, r, score_last_1)
           THEN Piece(df, r, customer_name_2, 1)
           ELSE Piece(df, r, customer_name_1, 1))

\* select_best_full_name(row), row being row r of df
select_best_full_name(df, r) ==
  FullName(IF Cell(df, r, score_1) > Cell(df, r, score_2)
           THEN Piece(df, r, customer_name_1, 0)
           ELSE IF Cell(df, r, score_2) > Cell(df, r, score_1)
           THEN Piece(df, r, customer_name_2, 0)
           ELSE Piece(df, r, customer_name_1, 0),
           IF Cell(df, r, score_last_1) > Cell(df, r, score_last_2)
           THEN Piece(df, r, customer_name_1, 1)
           ELSE IF Cell(df, r, score_last_2) > Cell(df, r, score_last_1)
           THEN Piece(df, r, customer_name_2, 1)
           ELSE Piece(df, r, customer_name_1, 1))

\* line 209: merged_df['customer_name'] = merged_df.apply(select_best_full_name)
SelectNames ==
  /\ pc = "select"
  /\ AssignApplied(Applied([r \in 1..Len(merged_df.rows) |->
                              select_best_full_name(merged_df, r)]),
                   customer_name, "drop_scores")
  /\ UNCHANGED <<data, conn, calls, table, probe>>

\* line 210
DropScores ==
  /\ pc = "drop_scores"
  /\ merged_df' = DropColumns(merged_df, {customer_name_1, customer_name_2,
                                          score_1, score_2,
                                          score_last_1, score_last_2})
  /\ pc' = "upper"
  /\ UNCHANGED <<data, conn, calls, table, error, probe>>

\* str.upper(column_name)
Upper(s) == [i \in 1..Len(s) |-> UpperChar(s[i])]

\* line 213
UpperColumns ==
  /\ pc = "upper"
  /\ merged_df' = [merged_df EXCEPT
                     !.columns = [i \in 1..Len(merged_df.columns) |->
                                    Upper(merged_df.columns[i])]]
  /\ pc' = "connect"
  /\ UNCHANGED <<data, conn, calls, table, error, probe>>

\* what snowflake.connector.connect may do: return a connection, raise
\* ProgrammingError, or raise another error of the connector
ConnectOutcomes == {"connection", "ProgrammingError", "DatabaseError"}

\* connect_to_snowflake (lines 118-133): the connection, None after a
\* ProgrammingError, and any other exception passes through
connect_to_snowflake(outcome) ==
  IF outcome = "connection" THEN [raised |-> "", value |-> "connection"]
  ELSE IF outcome = "ProgrammingError" THEN [raised |-> "", value |-> "None"]
  ELSE [raised |-> outcome, value |-> "None"]

\* conn = connect_to_snowflake(verbose)
AssignConn(got) ==
  IF got.raised # ""
  THEN /\ error' = got.raised
       /\ pc' = "raised"
       /\ UNCHANGED conn
  ELSE /\ conn' = got.value
       /\ pc' = "create_table"
       /\ UNCHANGED error

\* line 216
Connect ==
  /\ pc = "connect"
  /\ \E outcome \in ConnectOutcomes : AssignConn(connect_to_snowflake(outcome))
  /\ UNCHANGED <<data, merged_df, calls, table, probe>>

\* the columns of CREATE OR REPLACE TABLE (lines 151-158), as Snowflake
\* stores unquoted identifiers: in upper case
table_schema ==
  [i \in 1..Len(transactions_columns) |-> Upper(transactions_columns[i])]

\* create_table (lines 148-167): True with the table created; False when
\* conn.cursor() or cursor.execute raises, which it does on a None conn
create_table(c, executes) ==
  IF c = "connection" /\ executes
  THEN [value |-> TRUE, table |-> table_schema]
  ELSE [value |-> FALSE, table |-> table]

\* line 219: the value create_table returns is not looked at
CreateTable ==
  /\ pc = "create_table"
  /\ \E executes \in BOOLEAN :
       table' = create_table(conn, executes).table
  /\ calls' = Append(calls, [op |-> "create_table", conn |-> conn])
  /\ pc' = "write_pandas"
  /\ UNCHANGED <<data, merged_df, conn, error, probe>>

\* lines 222-228: write_pandas(conn, merged_df, table_name); on a None conn
\* its conn.cursor() raises AttributeError
WritePandas ==
  /\ pc = "write_pandas"
  /\ calls' = Append(calls, [op |-> "write_pandas", conn |-> conn])
  /\ IF conn = "None"
     THEN /\ error' = "AttributeError"
          /\ pc' = "raised"
     ELSE /\ pc' = "close"
          /\ UNCHANGED error
  /\ UNCHANGED <<data, merged_df, conn, table, probe>>

\* line 231
Close ==
  /\ pc = "close"
  /\ conn' = "closed"
  /\ pc' = "done"
  /\ UNCHANGED <<data, merged_df, calls, table, error, probe>>

Next ==
  \/ MatchNames
  \/ MergeFrames
  \/ FillMissing
  \/ DropExternalName
  \/ ScoreFirst1
  \/ ScoreFirst2
  \/ ScoreLast1
  \/ ScoreLast2
  \/ SelectNames
  \/ DropScores
  \/ UpperColumns
  \/ Connect
  \/ CreateTable
  \/ WritePandas
  \/ Close

Spec == Init /\ [][Next]_vars

\* ------------------------------------------------------------------------
\* The resolver entry points called directly, on any query, list and threshold
\* ------------------------------------------------------------------------
QueryNames == {JonDoe, Zed, LeadDoe, <<>>}
ChoiceNames == {JohnDoh, JonDoe, DOE}
Thresholds == {0, threshold_default, 80, 100}

InitResolver ==
  /\ pc = "off"
  /\ transactions = EmptyFrame
  /\ customers = EmptyFrame
  /\ reference_names = [k \in {key_female, key_male, key_last} |-> <<>>]
  /\ merged_df = EmptyFrame
  /\ conn = "unset"
  /\ calls = <<>>
  /\ table = <<>>
  /\ error = ""
  /\ \E name \in QueryNames, choices \in SeqsUpTo(ChoiceNames, 0, MaxChoices),
        threshold \in Thresholds :
        probe = [IdleProbe EXCEPT !.name = name, !.choices = choices,
                                  !.threshold = threshold]

\* extract_best(name, choices, threshold)
CallExtractBest ==
  /\ probe.op = "idle"
  /\ probe' = [probe EXCEPT
                 !.op = "extract_best",
                 !.result = extract_best(probe.name, probe.choices, probe.threshold)]
  /\ UNCHANGED <<pc, data, merged_df, conn, calls, table, error>>

\* get_best_score(name, choices)
CallGetBestScore ==
  /\ probe.op = "idle"
  /\ probe' = [probe EXCEPT
                 !.op = "get_best_score",
                 !.raised = get_best_score(probe.name, probe.choices).raised,
                 !.score = get_best_score(probe.name, probe.choices).value]
  /\ UNCHANGED <<pc, data, merged_df, conn, calls, table, error>>

NextResolver ==
  \/ CallExtractBest
  \/ CallGetBestScore

SpecResolver == InitResolver /\ [][NextResolver]_vars

\* ------------------------------------------------------------------------
\* Properties
\* ------------------------------------------------------------------------
\* the highest score any choice obtains
HighestScore(name, choices) ==
  CHOOSE v \in {token_set_ratio(name, choices[i]) : i \in 1..Len(choices)} :
    \A i \in 1..Len(choices) : token_set_ratio(name, choices[i]) <= v

\* C1: on a non-empty list extract_best returns None when the highest score
\* of any candidate is below the threshold, and otherwise a candidate whose
\* score is the highest score; a highest score equal to the threshold is
\* accepted.
C1_ExtractBestThreshold ==
  (probe.op = "extract_best" /\ probe.choices # <<>>) =>
     IF HighestScore(probe.name, probe.choices) < probe.threshold
     THEN probe.result = None
     ELSE /\ probe.result \in Range(probe.choices)
          /\ token_set_ratio(probe.name, probe.result)
               = HighestScore(probe.name, probe.choices)

\* extract_best has accepted a candidate whose score equals the threshold
C1_Witness ==
  /\ probe.op = "extract_best"
  /\ probe.choices # <<>>
  /\ HighestScore(probe.name, probe.choices) = probe.threshold
  /\ probe.threshold > 0
  /\ probe.result \in Range(probe.choices)

\* the join has run
Merged == pc \notin {"off", "match", "merge"}
\* merged_df still has the columns the join gave it, and the blanks
Filled == pc \in {"drop_external", "score_1", "score_2", "score_last_1",
                  "score_last_2", "select", "drop_scores"}
TxRows == 1..Len(transactions.rows)
TxName(t) == Cell(transactions, t, customer_name)
\* extract_best returned None for transaction t
Unmatched(t) == Cell(transactions, t, external_name) = None
Occurrences(names, n) == Cardinality({i \in 1..Len(names) : names[i] = n})
\* the rows of merged_df that come from transaction t
RowsOf(t, id_label) ==
  {r \in 1..Len(merged_df.rows) :
     Cell(merged_df, r, id_label) = Cell(transactions, t, transaction_id)}
FirstTwoPieces(name) ==
  SplitOn(name, " ")[1] \o <<" ">> \o SplitOn(name, " ")[2]

\* C2 (amended): after the join the output has at least as many rows as there
\* are transactions, and exactly as many whenever the name extract_best
\* resolved for each transaction occurs at most once in the customers'
\* customer_name column.
C2_JoinCardinality ==
  Merged =>
    /\ Len(merged_df.rows) >= Len(transactions.rows)
    /\ (\A t \in TxRows :
          Occurrences(ColumnList(customers, customer_name),
                      Cell(transactions, t, external_name)) <= 1)
       => Len(merged_df.rows) = Len(transactions.rows)

\* a transaction was matched to a customer name that occurs once, and the
\* join kept the number of rows
C2_Witness ==
  /\ pc = "fillna"
  /\ \E t \in TxRows : ~Unmatched(t)
  /\ \A t \in TxRows :
       Occurrences(ColumnList(customers, customer_name),
                   Cell(transactions, t, external_name)) <= 1
  /\ Len(merged_df.rows) = Len(transactions.rows)

\* C2 as stated: the row counts are equal whenever every transaction name has
\* at most one exact-string match in the customers' customer_name column.
C2_AsStated ==
  Merged =>
    ((\A t \in TxRows :
        Occurrences(ColumnList(customers, customer_name), TxName(t)) <= 1)
     => Len(merged_df.rows) = Len(transactions.rows))

\* C3: the first token comes from name_2 only when name_2's first-name score
\* is strictly higher and from name_1 otherwise, the last token likewise by
\* the last-name scores, and the result is the two tokens joined by a space.
C3_TokenSelection ==
  pc = "drop_scores" =>
    \A r \in 1..Len(merged_df.rows) :
      Cell(merged_df, r, customer_name) =
        (IF Cell(merged_df, r, score_2) > Cell(merged_df, r, score_1)
         THEN SplitOn(Cell(merged_df, r, customer_name_2), " ")[1]
         ELSE SplitOn(Cell(merged_df, r, customer_name_1), " ")[1])
        \o <<" ">> \o
        (IF Cell(merged_df, r, score_last_2) > Cell(merged_df, r, score_last_1)
         THEN SplitOn(Cell(merged_df, r, customer_name_2), " ")[2]
         ELSE SplitOn(Cell(merged_df, r, customer_name_1), " ")[2])

\* "Jon Doe" joined with "John Doh": the first token of name_2 and the last
\* token of name_1 make "John Doe"
C3_Witness ==
  /\ pc = "drop_scores"
  /\ \E r \in 1..Len(merged_df.rows) :
       /\ Cell(merged_df, r, customer_name_1) = JonDoe
       /\ Cell(merged_df, r, customer_name_2) = JohnDoh
       /\ Cell(merged_df, r, score_2) > Cell(merged_df, r, score_1)
       /\ Cell(merged_df, r, score_last_1) > Cell(merged_df, r, score_last_2)
       /\ Cell(merged_df, r, customer_name) = <<"J","o","h","n"," ","D","o","e">>

\* C4: when name_1 and name_2 have identical first-name scores and identical
\* last-name scores, the resolved customer_name equals name_1 verbatim.
C4_TieKeepsName1 ==
  pc = "drop_scores" =>
    \A r \in 1..Len(merged_df.rows) :
      (/\ Cell(merged_df, r, score_1) = Cell(merged_df, r, score_2)
       /\ Cell(merged_df, r, score_last_1) = Cell(merged_df, r, score_last_2))
      => Cell(merged_df, r, customer_name) = Cell(merged_df, r, customer_name_1)

\* C5: when connect_to_snowflake returns no connection, neither create_table
\* nor write_pandas is invoked afterwards, and main ends with the connection
\* failure.
C5_NoSinkCallWithoutConnection ==
  /\ \A i \in 1..Len(calls) : calls[i].conn # "None"
  /\ (conn = "None" /\ pc = "raised") => error = "ProgrammingError"

\* C6: get_best_score and extract_best, called with an empty candidate list,
\* end in an explicit failure; neither returns a sentinel.
C6_EmptyChoicesRaise ==
  (probe.op \in {"extract_best", "get_best_score"} /\ probe.choices = <<>>)
    => probe.raised # ""

\* C7: a joined row whose name_1 or name_2 has fewer than two
\* whitespace-separated tokens fails the batch; the step never yields a
\* resolved customer_name built from a missing or empty token. Stated by its
\* consequence: a row with such a name that the step did resolve would have
\* to show two words in its resolved customer_name.
C7_ShortNameFailsBatch ==
  pc = "drop_scores" =>
    \A r \in 1..Len(merged_df.rows) :
      (\/ Len(Words(Cell(merged_df, r, customer_name_1))) < 2
       \/ Len(Words(Cell(merged_df, r, customer_name_2))) < 2)
      => Len(Words(Cell(merged_df, r, customer_name))) = 2

\* a reference list is empty, or a name has no second piece under split(' ')
Malformed ==
  \/ FirstChoices(reference_names) = <<>>
  \/ LastChoices(reference_names) = <<>>
  \/ \E t \in TxRows : Len(SplitOn(TxName(t), " ")) < 2
  \/ \E c \in 1..Len(customers.rows) :
       Len(SplitOn(Cell(customers, c, customer_name), " ")) < 2

\* C8 (amended): a transaction with no candidate at or above 75 gets exactly
\* one joined row, whose customer-side id, email and name hold the blank
\* placeholder and no null marker, through the fill, scoring and selection
\* steps and in the output; and those steps raise only when a reference list
\* is empty or a name of the batch has no second piece under split(' ').
C8_UnmatchedRowBlank ==
  /\ Filled =>
       \A t \in TxRows : Unmatched(t) =>
         /\ Cardinality(RowsOf(t, transaction_id)) = 1
         /\ \A r \in RowsOf(t, transaction_id) :
              /\ Cell(merged_df, r, customer_id_2) = Blank
              /\ Cell(merged_df, r, email_2) = Blank
              /\ Cell(merged_df, r, customer_name_2) = Blank
  /\ pc \in {"connect", "create_table", "write_pandas", "close", "done"} =>
       \A t \in TxRows : Unmatched(t) =>
         /\ Cardinality(RowsOf(t, Upper(transaction_id))) = 1
         /\ \A r \in RowsOf(t, Upper(transaction_id)) :
              /\ Cell(merged_df, r, Upper(customer_id_2)) = Blank
              /\ Cell(merged_df, r, Upper(email_2)) = Blank
  /\ (pc = "raised" /\ error \in {"IndexError", "TypeError"}) => Malformed

\* an unmatched transaction's row, blank on the customer side, in the output
C8_Witness ==
  /\ pc = "done"
  /\ \E t \in TxRows :
       /\ Unmatched(t)
       /\ \E r \in RowsOf(t, Upper(transaction_id)) :
            Cell(merged_df, r, Upper(customer_id_2)) = Blank

\* C8 as stated: with a transaction that has no candidate at or above 75, main
\* raises no fault in the match, join, fill, scoring and selection steps.
C8_AsStated ==
  (pc = "raised" /\ error \in {"IndexError", "TypeError"})
    => \A t \in TxRows : ~Unmatched(t)

\* C9: the frame handed to write_pandas has exactly the six columns of the
\* table create_table creates, in upper case.
C9_WrittenColumnsMatchSchema ==
  (\E i \in 1..Len(calls) : calls[i].op = "write_pandas")
    => merged_df.columns = table_schema

\* C10: for a transaction for which extract_best returned None, the resolved
\* customer_name is the first and second space-separated tokens of the
\* transaction's own name joined by one space; for a name of exactly two
\* tokens that is the name itself, with no empty placeholder token.
C10_UnmatchedKeepsOwnTokens ==
  pc = "drop_scores" =>
    \A t \in TxRows : Unmatched(t) =>
      \A r \in RowsOf(t, transaction_id) :
        /\ Cell(merged_df, r, customer_name) = FirstTwoPieces(TxName(t))
        /\ (Len(SplitOn(TxName(t), " ")) = 2 /\ Len(Words(TxName(t))) = 2)
           => Cell(merged_df, r, customer_name) = TxName(t)

\* "Jon Doe" found no customer and was resolved to "Jon Doe", its tokens
\* scoring above the placeholder's 0
C10_Witness ==
  /\ pc = "drop_scores"
  /\ \E t \in TxRows :
       /\ Unmatched(t)
       /\ TxName(t) = JonDoe
       /\ \E r \in RowsOf(t, transaction_id) :
            /\ Cell(merged_df, r, customer_name_2) = Blank
            /\ Cell(merged_df, r, score_2) = 0
            /\ Cell(merged_df, r, score_1) > 0
            /\ Cell(merged_df, r, customer_name) = JonDoe

====
